---- MODULE Spec2Model ----
(***************************************************************************)
(* Leaderboard backend: the score submission path (DynamoService and the   *)
(* two POST /submit route variants), the admin store utilities and the     *)
(* Socket.IO broadcast service (WebSocketService).                         *)
(*                                                                         *)
(* A step is one turn of the Node.js event loop: a handler runs from the    *)
(* arrival of a request or of a store result up to the next store command  *)
(* it awaits (Query, Put, Scan).  An await of a call that does no I/O      *)
(* (the WebSocketService methods, which emit synchronously) resumes in the *)
(* same turn, so it is no step boundary.  A store command and an io.emit   *)
(* may fail; the failure is a nondeterministic input of the step.          *)
(***************************************************************************)
EXTENDS Integers, Sequences, FiniteSets, TLC

\* ---------------------------------------------------------------- bounds
MaxRequests == 2
\* POST /ws/test-notification is called while fewer than MaxCalls broadcast
\* calls have emitted
MaxCalls == 2
\* The largest table getTopScores is applied to
MaxItems == 3
\* The pings one socket's client sends
MaxPings == 2

\* ------------------------------------------------------- program constants
HIGH_SCORE_THRESHOLD == 1000
MAX_SCORE == 1000000
TOP_N == 10

\* ------------------------------------------------------------ input sets
Users == {"u1", "u2"}
Clients == {"c1", "c2"}
Requests == 1..MaxRequests
\* The scores of a single submission: both sides of each threshold of the
\* code (0, 1000, 1000000)
ScoreInputs == {-1, 0, 1000, 1001, 1000000, 1000001}
\* The scores of concurrent submissions: one rejected, one not high, one high
ConcurrentScores == {-1, 1000, 1001}
\* The two versions of routes/scores.ts: with WebSocketService ("ws") and
\* with PusherService ("pusher").
Routes == {"ws", "pusher"}
NotificationTypes == {"HIGH_SCORE", "NEW_PLAYER", "TEST"}

\* req.user.username as the auth middleware supplies it: u2's display name
\* is its Cognito id, a UUID.
Username(u) == IF u = "u1" THEN "alice" ELSE "uuid-u2"

\* /^[0-9a-f]{8}-...$/i.test(username)
IsUuid(name) == name = "uuid-u2"

\* `User_${record.userId.substring(0, 8)}`
PlaceholderName(u) == "User_" \o u

VARIABLES
    store,          \* table leaderboard-scores: userId -> Items (<<>> or <<record>>)
    clock,          \* source of new Date().toISOString()
    io,             \* WebSocketService.io !== null
    connectedClients, \* WebSocketService.connectedClients
    lastBroadcast,  \* the deliveries made by the latest broadcast call
    variant,        \* the version of routes/scores.ts that is deployed
    req,            \* the POST /submit requests
    fix,            \* the run of fixUsernamesInExistingRecords
    firstWrite,     \* history: the first record written for each userId
    sockets,        \* the open sockets of io (io.sockets)
    asked,          \* history: the sockets whose client emitted 'join-leaderboard'
    inbox,          \* history: per socket, the broadcast calls it received, in order of arrival
    calls,          \* history: the number of broadcast calls that emitted
    testStatus,     \* the status of the latest POST /ws/test-notification response (0: none yet)
    clear,          \* the run of clearAllScores
    top,            \* a call of getTopScores on a table of its own
    direct,         \* per open socket, what the server emitted to it alone (socket.emit)
    pings,          \* history: per open socket, the payloads of the pings its client sent
    scanned,        \* per request, the result of its getTopScores scan while it is on its way back
    can             \* the GET /can-submit request

vars == <<store, clock, io, connectedClients, lastBroadcast, variant, req, fix, firstWrite,
          sockets, asked, inbox, calls, testStatus, clear, top, direct, pings, scanned, can>>

\* ------------------------------------------------------------------ store
ScoreRecord(u, score, name, ts) ==
    [userId |-> u, score |-> score, username |-> name, timestamp |-> ts]

\* PutCommand: the item replaces whatever is stored under its key.
Put(tbl, item) == [tbl EXCEPT ![item.userId] = <<item>>]

\* ---------------------------------------------------------- DynamoService
\* getUserScore: a failed query is caught and reported as success=false.
GetUserScoreMut(u, ok) ==
    IF ok THEN [success |-> TRUE, score |-> IF store[u] # <<>> THEN store[u] ELSE store["u1"]]
          ELSE [success |-> FALSE, score |-> <<>>]
GetUserScore(u, ok) ==
    IF ok THEN [success |-> TRUE, score |-> store[u]]
          ELSE [success |-> FALSE, score |-> <<>>]

\* submitScore line 27: existingScore.success && existingScore.score
HasExistingMut(res) == res.success /\ Len(res.score) > 1
HasExisting(res) == res.success /\ res.score # <<>>

\* submitScore line 55 and scores.ts line 40
IsHighScore(score) == score > HIGH_SCORE_THRESHOLD

\* routes/scores (Pusher variant) line 49
PusherHigh(score) == score >= HIGH_SCORE_THRESHOLD

\* scores.ts lines 21 and 28: the two 400 exits
ValidScoreMut(score) == ~(score < 0) /\ ~(score >= MAX_SCORE)
ValidScore(score) == ~(score < 0) /\ ~(score > MAX_SCORE)

\* Insert x into the sorted sequence s after every element that does not
\* sort after it: Array.prototype.sort is stable, so ties keep scan order.
RECURSIVE InsertDesc(_, _)
InsertDesc(s, x) ==
    IF s = <<>> THEN <<x>>
    ELSE IF x.score > Head(s).score THEN <<x>> \o s
    ELSE <<Head(s)>> \o InsertDesc(Tail(s), x)

RECURSIVE SortDesc(_)
SortDesc(s) ==
    IF s = <<>> THEN <<>>
    ELSE InsertDesc(SortDesc(SubSeq(s, 1, Len(s) - 1)), s[Len(s)])

Take(s, n) == SubSeq(s, 1, IF Len(s) < n THEN Len(s) ELSE n)

\* getTopScores lines 133-136 on the Items of a scan (all records have a
\* username and a score, so the filter keeps them all)
TopScores(items, limit) == Take(SortDesc(items), limit)

\* The Items of a ScanCommand: the stored records in some order.
RECURSIVE ScanOrders(_)
ScanOrders(us) ==
    IF us = {} THEN {<<>>}
    ELSE UNION {{<<store[u][1]>> \o rest : rest \in ScanOrders(us \ {u})} : u \in us}

ScanResults == ScanOrders({u \in Users : store[u] # <<>>})

\* The orders in which a scan can return a set of records
RECURSIVE Orders(_)
Orders(recs) ==
    IF recs = {} THEN {<<>>}
    ELSE UNION {{<<rec>> \o rest : rest \in Orders(recs \ {rec})} : rec \in recs}

\* getTopScores: what the call returns for the outcome of its scan
GetTopScores(ok, items, limit) ==
    IF ok THEN [success |-> TRUE, scores |-> TopScores(items, limit)]
          ELSE [success |-> FALSE, scores |-> <<>>]

\* The inputs of getTopScores: tables of up to MaxItems records, one per
\* key, with scores on both sides of a tie, written at successive times,
\* and limits below, at and above the table size
TopKeys == 1..MaxItems
TopScoreValues == {1000, 1001}
TopTables ==
    {{ScoreRecord(k, score[k], "player", k) : k \in keys} :
        keys \in SUBSET TopKeys, score \in [TopKeys -> TopScoreValues]}
TopLimits == {1, 2, TOP_N}

\* DeleteCommand
Delete(tbl, u) == [tbl EXCEPT ![u] = <<>>]

\* ------------------------------------------------------- WebSocketService
\* sendNotification lines 113-123: the events one call emits
EventsFor(type) ==
    <<"notification">> \o
    (CASE type = "HIGH_SCORE" -> <<"high_score">>
       [] type = "NEW_PLAYER" -> <<"new_player">>
       [] OTHER -> <<>>)

\* broadcastLeaderboardUpdate line 151 emits one event
BroadcastEvents(type) ==
    IF type = "LEADERBOARD_UPDATE" THEN <<"leaderboard_update">> ELSE EventsFor(type)

\* io.emit reaches every open socket of the server; the service names no
\* room (no io.to, no socket.join anywhere in the file)
RecipientsMut == sockets \ {"c1"}
Recipients == sockets

NoBroadcast == [targets |-> {}, delivered |-> [c \in Clients |-> <<>>]]

\* broadcastLeaderboardUpdate lines 142-146: the entries of the payload
LeaderboardPayload(topScores) ==
    [i \in 1..Len(topScores) |->
        [username |-> topScores[i].username, score |-> topScores[i].score,
         timestamp |-> topScores[i].timestamp]]

\* The messages one broadcast call of a payload of `type` delivers (data:
\* the topScores of a leaderboard update, empty for a notification)
Messages(type, data) ==
    [i \in 1..Len(BroadcastEvents(type)) |->
        [event |-> BroadcastEvents(type)[i], type |-> type, data |-> data]]

\* targets records who was connected when the call started
Deliver(type, data) ==
    [targets |-> sockets,
     delivered |-> [c \in Clients |->
                      IF c \in Recipients THEN Messages(type, data) ELSE <<>>]]

\* The socket's connection carries what is written to it in order
InboxAppendMut(box, ids) == ids \o box
InboxAppend(box, ids) == box \o ids

\* The numbers of the next k broadcast calls
CallIds(k) == [i \in 1..k |-> calls + i]

\* inbox after k further broadcast calls have emitted
Receive(k) ==
    [c \in Clients |->
        IF c \in Recipients THEN InboxAppend(inbox[c], CallIds(k)) ELSE inbox[c]]

\* ----------------------------------------------------------------- state
IdleRequest ==
    [pc |-> "idle", userId |-> "u1", score |-> 0, timestamp |-> 0,
     outcome |-> "none", responses |-> <<>>,
     reads |-> 0, writes |-> 0, found |-> FALSE, sfail |-> FALSE, failed |-> {},
     emitted |-> <<>>, p1000 |-> 0, pSub |-> 0]

IdleFix == [pc |-> "idle", items |-> <<>>]

IdleClear == [pc |-> "idle", items |-> <<>>]

\* record: history, what the table held for the user when the query ran
IdleCan == [pc |-> "idle", userId |-> "u1", record |-> <<>>, response |-> <<>>]

IdleTop == [pc |-> "idle", table |-> {}, limit |-> 0, success |-> FALSE, scores |-> <<>>]

Init ==
    /\ store = [u \in Users |-> <<>>]
    /\ clock = 1
    /\ io = FALSE
    /\ connectedClients = {}
    /\ lastBroadcast = NoBroadcast
    /\ variant \in Routes
    /\ req = [r \in Requests |-> IdleRequest]
    /\ fix = IdleFix
    /\ firstWrite = [u \in Users |-> <<>>]
    /\ sockets = {}
    /\ asked = {}
    /\ inbox = [c \in Clients |-> <<>>]
    /\ calls = 0
    /\ testStatus = 0
    /\ clear = IdleClear
    /\ top = IdleTop
    /\ direct = [c \in Clients |-> <<>>]
    /\ pings = [c \in Clients |-> <<>>]
    /\ scanned = [r \in Requests |-> <<>>]
    /\ can = IdleCan

\* ------------------------------------------------------- helper updates
\* An io.emit can throw only when there is an io.
Oks == IF io THEN BOOLEAN ELSE {TRUE}

\* The outcomes of an emit that is reached only when `reached`
OksWhen(reached) == IF reached THEN Oks ELSE {TRUE}

\* What one call of sendNotification / broadcastLeaderboardUpdate emits:
\* without io the call logs and returns; with io it emits, or the emit
\* throws (ok = FALSE) and the call rethrows.
Emit(type, ok) == IF io /\ ok THEN <<type>> ELSE <<>>

\* History: the calls of a submission that failed
Failure(call, ok) == IF ok THEN {} ELSE {call}

\* lastBroadcast after a step that took request q to q2 (topScores: the
\* result of getTopScores, if the step had one)
BroadcastsOf(q, q2, topScores) ==
    IF Len(q2.emitted) = Len(q.emitted) THEN lastBroadcast
    ELSE LET type == q2.emitted[Len(q2.emitted)] IN
         Deliver(type, IF type = "LEADERBOARD_UPDATE"
                       THEN LeaderboardPayload(topScores) ELSE <<>>)

\* submitScore lines 29-33, 74-79 and 82-85: the object each return
\* statement builds (<<>>: the call has not returned)
SubmitResult(outcome) ==
    CASE outcome = "Accepted" ->
           [success |-> TRUE, isHighScore |-> TRUE, isFirstScore |-> TRUE,
            alreadySubmitted |-> FALSE]
      [] outcome = "AlreadySubmitted" ->
           [success |-> FALSE,
            error |-> "You have already submitted a score. Each user can only submit once.",
            alreadySubmitted |-> TRUE]
      [] outcome = "StoreFailure" ->
           [success |-> FALSE, error |-> "Failed to submit score"]
      [] OTHER -> <<>>

\* scores.ts lines 38-71: the status the route answers for an outcome
RouteStatusMut(outcome) ==
    CASE outcome = "Accepted" -> 200
      [] OTHER -> 500
RouteStatus(outcome) ==
    CASE outcome = "Accepted" -> 200
      [] outcome = "AlreadySubmitted" -> 409
      [] OTHER -> 500

\* scores.ts lines 55-70 (Pusher variant lines 42-47 and 87-93): the body
\* of the response the route builds from the result of submitScore
SubmitBody(q) ==
    LET result == SubmitResult(q.outcome) IN
    CASE q.outcome = "Accepted" ->
           [message |-> "Score submitted successfully!",
            isFirstScore |-> result.isFirstScore,
            score |-> q.score,
            notificationSent |-> (variant = "ws" /\ q.score > HIGH_SCORE_THRESHOLD)]
      [] q.outcome = "AlreadySubmitted" ->
           [error |-> result.error,
            alreadySubmitted |-> TRUE,
            message |-> "You have already submitted your score. Each player can only submit once."]
      [] q.outcome = "StoreFailure" -> [error |-> result.error]
      [] OTHER -> <<>>

\* ------------------------------------------------------------ POST /submit
\* scores.ts lines 38-77: the route receives the result of submitScore.  On
\* success with a high score it sends its own HIGH_SCORE notification; a
\* throw of sendNotification is caught (lines 49-52) and the success response
\* follows.
WsRouteMut(q, okR) ==
    IF q.outcome = "Accepted" /\ IsHighScore(q.score)
    THEN [q EXCEPT !.pc = "done", !.emitted = @ \o Emit("HIGH_SCORE", okR),
                   !.failed = @ \cup Failure("ROUTE", okR),
                   !.responses = Append(@, IF okR THEN RouteStatus(q.outcome) ELSE 500)]
    ELSE [q EXCEPT !.pc = "done", !.responses = Append(@, RouteStatus(q.outcome))]
WsRoute(q, okR) ==
    IF q.outcome = "Accepted" /\ IsHighScore(q.score)
    THEN [q EXCEPT !.pc = "done", !.emitted = @ \o Emit("HIGH_SCORE", okR),
                   !.failed = @ \cup Failure("ROUTE", okR),
                   !.responses = Append(@, RouteStatus(q.outcome))]
    ELSE [q EXCEPT !.pc = "done", !.responses = Append(@, RouteStatus(q.outcome))]

\* Pusher variant lines 41-61 and 84-95: the success response is sent first,
\* then '1000 posted' is triggered for score >= 1000 and the scan of
\* getTopScores(90) is issued.
PusherRoute(q) ==
    IF q.outcome = "Accepted"
    THEN [q EXCEPT !.pc = "pScan",
                   !.responses = Append(@, RouteStatus(q.outcome)),
                   !.p1000 = @ + (IF PusherHigh(q.score) THEN 1 ELSE 0)]
    ELSE [q EXCEPT !.pc = "done", !.responses = Append(@, RouteStatus(q.outcome))]

\* submitScore returns `outcome` and the route handler resumes
Return(q, outcome, okR) ==
    LET q2 == [q EXCEPT !.outcome = outcome] IN
    IF variant = "ws" THEN WsRoute(q2, okR) ELSE PusherRoute(q2)

\* The route handler up to its first await: validation (lines 20-33), then
\* the call of submitScore, which takes its timestamp and issues the query
\* of getUserScore.  Request slots are interchangeable and are taken in
\* order.
Submit(r, scores) ==
    /\ req[r].pc = "idle"
    /\ r > 1 => req[r - 1].pc # "idle"
    /\ \E u \in Users, score \in scores :
        IF ~ValidScore(score)
        THEN /\ req' = [req EXCEPT ![r] = [@ EXCEPT !.pc = "done",
                            !.userId = u, !.score = score,
                            !.outcome = "InvalidScore", !.responses = <<400>>]]
             /\ clock' = clock
        ELSE /\ req' = [req EXCEPT ![r] = [@ EXCEPT !.pc = "read",
                            !.userId = u, !.score = score, !.timestamp = clock,
                            !.reads = 1]]
             /\ clock' = clock + 1
    /\ UNCHANGED <<store, io, connectedClients, lastBroadcast, variant, fix, firstWrite,
                   sockets, asked, inbox, calls, testStatus, clear, top, direct, pings, scanned,
                   can>>

\* submitScore lines 27-47: the call returns AlreadySubmitted or issues the
\* PutCommand
AfterUserScore(q, existingScore) ==
    IF HasExisting(existingScore)
    THEN Return(q, "AlreadySubmitted", TRUE)
    ELSE [q EXCEPT !.pc = "put"]

\* submitScore line 25: the result of getUserScore arrives (found: the query
\* returned a record)
UserScoreReturns(r) ==
    /\ req[r].pc = "read"
    /\ \E ok \in BOOLEAN :
        LET existingScore == GetUserScore(req[r].userId, ok)
            q == [req[r] EXCEPT !.found = ok /\ store[req[r].userId] # <<>>,
                                !.sfail = ~ok]
        IN req' = [req EXCEPT ![r] = AfterUserScore(q, existingScore)]
    /\ UNCHANGED <<store, clock, io, connectedClients, lastBroadcast, variant, fix, firstWrite,
                   sockets, asked, inbox, calls, testStatus, clear, top, direct, pings, scanned,
                   can>>

\* submitScore lines 80-86: the PutCommand throws
AfterPutFailsMut(q) ==
    [q EXCEPT !.sfail = TRUE, !.emitted = @ \o Emit("NEW_PLAYER", TRUE), !.pc = "scan"]
AfterPutFails(q) ==
    Return([q EXCEPT !.sfail = TRUE], "StoreFailure", TRUE)

\* submitScore lines 49-79: the PutCommand completed.  A throw of
\* notifyHighScore or notifyNewPlayer leaves the try block for the catch of
\* line 69 and the call returns success; otherwise the scan of
\* getTopScores(10) is issued.
AfterPut(q, okHS, okNP, okR) ==
    LET q1 == [q EXCEPT !.writes = @ + 1]
        high == IsHighScore(q.score)
        q2 == IF high THEN [q1 EXCEPT !.emitted = @ \o Emit("HIGH_SCORE", okHS)] ELSE q1
        q3 == [q2 EXCEPT !.emitted = @ \o Emit("NEW_PLAYER", okNP)]
    IN IF high /\ ~okHS
       THEN Return([q1 EXCEPT !.failed = @ \cup {"HIGH_SCORE"}], "Accepted", okR)
       ELSE IF ~okNP
       THEN Return([q2 EXCEPT !.failed = @ \cup {"NEW_PLAYER"}], "Accepted", okR)
       ELSE [q3 EXCEPT !.pc = "scan"]

PutReturns(r) ==
    /\ req[r].pc = "put"
    /\ LET q == req[r]
           high == IsHighScore(q.score)
           item == ScoreRecord(q.userId, q.score, Username(q.userId), q.timestamp)
       IN \/ /\ req' = [req EXCEPT ![r] = AfterPutFails(q)]
             /\ UNCHANGED <<store, firstWrite, lastBroadcast, inbox, calls>>
          \/ \E okHS \in OksWhen(high) :
             \E okNP \in OksWhen(~high \/ okHS) :
             \E okR \in OksWhen(variant = "ws" /\ high /\ (~okHS \/ ~okNP)) :
               LET q2 == AfterPut(q, okHS, okNP, okR) IN
               /\ store' = Put(store, item)
               /\ firstWrite' = IF firstWrite[q.userId] = <<>>
                                THEN [firstWrite EXCEPT ![q.userId] = <<item>>]
                                ELSE firstWrite
               /\ req' = [req EXCEPT ![r] = q2]
               /\ lastBroadcast' = BroadcastsOf(q, q2, <<>>)
               /\ inbox' = Receive(Len(q2.emitted) - Len(q.emitted))
               /\ calls' = calls + Len(q2.emitted) - Len(q.emitted)
    /\ UNCHANGED <<clock, io, connectedClients, variant, fix, sockets, asked, testStatus, clear,
                   top, direct, pings, scanned, can>>

\* submitScore lines 63-79: the result of getTopScores(10) arrives.  With
\* success it is broadcast (a throw is caught on line 69); the call returns
\* success either way.
AfterScanMut(q, okScan, okB, okR) ==
    IF okScan
    THEN Return([q EXCEPT !.emitted = @ \o Emit("LEADERBOARD_UPDATE", okB),
                          !.failed = @ \cup Failure("LEADERBOARD_UPDATE", okB)],
                IF okB THEN "Accepted" ELSE "Raised", okR)
    ELSE Return([q EXCEPT !.failed = @ \cup {"SCAN"}], "Accepted", okR)
AfterScan(q, okScan, okB, okR) ==
    IF okScan
    THEN Return([q EXCEPT !.emitted = @ \o Emit("LEADERBOARD_UPDATE", okB),
                          !.failed = @ \cup Failure("LEADERBOARD_UPDATE", okB)],
                "Accepted", okR)
    ELSE Return([q EXCEPT !.failed = @ \cup {"SCAN"}], "Accepted", okR)

ScanReturns(r) ==
    /\ req[r].pc = "scan"
    /\ \E okScan \in BOOLEAN :
       \E items \in (IF okScan THEN ScanResults ELSE {<<>>}) :
       \E okB \in OksWhen(okScan) :
       \E okR \in OksWhen(variant = "ws" /\ IsHighScore(req[r].score)) :
        LET q2 == AfterScan(req[r], okScan, okB, okR) IN
        /\ req' = [req EXCEPT ![r] = q2]
        /\ lastBroadcast' = BroadcastsOf(req[r], q2, TopScores(items, TOP_N))
        /\ inbox' = Receive(Len(q2.emitted) - Len(req[r].emitted))
        /\ calls' = calls + Len(q2.emitted) - Len(req[r].emitted)
    /\ UNCHANGED <<store, clock, io, connectedClients, variant, fix, firstWrite, sockets, asked,
                   testStatus, clear, top, direct, pings, scanned, can>>

\* The same await in two steps.  getTopScores line 129: the ScanCommand of
\* the request is executed by the store, which reads the table then; the
\* result is on its way back.
ScanExecutes(r) ==
    /\ req[r].pc = "scan"
    /\ scanned[r] = <<>>
    /\ \E okScan \in BOOLEAN :
       \E items \in (IF okScan THEN ScanResults ELSE {<<>>}) :
        scanned' = [scanned EXCEPT ![r] = <<[ok |-> okScan, items |-> items]>>]
    /\ UNCHANGED <<store, clock, io, connectedClients, lastBroadcast, variant, req, fix,
                   firstWrite, sockets, asked, inbox, calls, testStatus, clear, top, direct,
                   pings, can>>

\* submitScore lines 63-79: the result of the executed scan arrives, in
\* whatever order the results of concurrent requests come back.
ScanArrives(r) ==
    /\ req[r].pc = "scan"
    /\ scanned[r] # <<>>
    /\ \E okB \in OksWhen(scanned[r][1].ok) :
       \E okR \in OksWhen(variant = "ws" /\ IsHighScore(req[r].score)) :
        LET q2 == AfterScan(req[r], scanned[r][1].ok, okB, okR) IN
        /\ req' = [req EXCEPT ![r] = q2]
        /\ lastBroadcast' = BroadcastsOf(req[r], q2, TopScores(scanned[r][1].items, TOP_N))
        /\ inbox' = Receive(Len(q2.emitted) - Len(req[r].emitted))
        /\ calls' = calls + Len(q2.emitted) - Len(req[r].emitted)
    /\ scanned' = [scanned EXCEPT ![r] = <<>>]
    /\ UNCHANGED <<store, clock, io, connectedClients, variant, fix, firstWrite, sockets, asked,
                   testStatus, clear, top, direct, pings, can>>

\* Pusher variant lines 61-81 and 96-99: the result of getTopScores(90)
\* arrives: 'score-submitted' is triggered, or a second response (500) is
\* attempted on line 80; that throws, the headers being sent, and the catch
\* of line 96 attempts a third.
PusherScanReturns(r) ==
    /\ req[r].pc = "pScan"
    /\ \E ok \in BOOLEAN :
        req' = [req EXCEPT ![r] =
                  IF ok THEN [@ EXCEPT !.pc = "done", !.pSub = @ + 1]
                        ELSE [@ EXCEPT !.pc = "done", !.responses = @ \o <<500, 500>>]]
    /\ UNCHANGED <<store, clock, io, connectedClients, lastBroadcast, variant, fix, firstWrite,
                   sockets, asked, inbox, calls, testStatus, clear, top, direct, pings, scanned,
                   can>>

\* ------------------------------------------ fixUsernamesInExistingRecords
\* lines 184-198: the records of the scan whose username is a UUID
NeedsFix(items) == SelectSeq(items, LAMBDA rec : IsUuid(rec.username))

\* lines 203-211: the item written back for a scanned record
FixedItem(rec) == [rec EXCEPT !.username = PlaceholderName(rec.userId)]

\* POST /admin/fix-usernames: the scan is issued
FixStart ==
    /\ fix.pc = "idle"
    /\ fix' = [fix EXCEPT !.pc = "scan"]
    /\ UNCHANGED <<store, clock, io, connectedClients, lastBroadcast, variant, req, firstWrite,
                   sockets, asked, inbox, calls, testStatus, clear, top, direct, pings, scanned,
                   can>>

\* The scan result arrives; the loop runs up to its first PutCommand.
FixScanReturns ==
    /\ fix.pc = "scan"
    /\ \/ \E items \in ScanResults :
            fix' = IF NeedsFix(items) = <<>> THEN IdleFix
                   ELSE [pc |-> "put", items |-> NeedsFix(items)]
       \/ fix' = IdleFix
    /\ UNCHANGED <<store, clock, io, connectedClients, lastBroadcast, variant, req, firstWrite,
                   sockets, asked, inbox, calls, testStatus, clear, top, direct, pings, scanned,
                   can>>

\* A PutCommand of the loop completes (the loop goes on to the next record)
\* or throws (the catch ends the run).
FixPutReturns ==
    /\ fix.pc = "put"
    /\ \/ /\ store' = Put(store, FixedItem(Head(fix.items)))
          /\ fix' = IF Tail(fix.items) = <<>> THEN IdleFix
                    ELSE [fix EXCEPT !.items = Tail(@)]
       \/ /\ fix' = IdleFix
          /\ UNCHANGED store
    /\ UNCHANGED <<clock, io, connectedClients, lastBroadcast, variant, req, firstWrite,
                   sockets, asked, inbox, calls, testStatus, clear, top, direct, pings, scanned,
                   can>>

\* --------------------------------------------------------- GET /can-submit
\* scores.ts lines 85-89: the response built from the result of
\* getUserScore (currentScore: <<>> for null)
CanSubmitResponse(result) ==
    [canSubmit |-> ~result.success \/ result.score = <<>>,
     hasSubmitted |-> result.success /\ result.score # <<>>,
     currentScore |-> IF result.success /\ result.score # <<>>
                      THEN <<result.score[1].score>> ELSE <<>>]

\* lines 80-83: the request arrives and the query of getUserScore is issued
CanSubmitStart ==
    /\ can.pc \in {"idle", "done"}
    /\ \E u \in Users : can' = [IdleCan EXCEPT !.pc = "read", !.userId = u]
    /\ UNCHANGED <<store, clock, io, connectedClients, lastBroadcast, variant, req, fix,
                   firstWrite, sockets, asked, inbox, calls, testStatus, clear, top, direct,
                   pings, scanned>>

\* lines 83-91: the result of getUserScore arrives and the response is sent
CanSubmitReturns ==
    /\ can.pc = "read"
    /\ \E ok \in BOOLEAN :
        can' = [can EXCEPT !.pc = "done", !.record = store[can.userId],
                           !.response = <<CanSubmitResponse(GetUserScore(can.userId, ok))>>]
    /\ UNCHANGED <<store, clock, io, connectedClients, lastBroadcast, variant, req, fix,
                   firstWrite, sockets, asked, inbox, calls, testStatus, clear, top, direct,
                   pings, scanned>>

\* --------------------------------------------------------- clearAllScores
\* DELETE /admin/clear-all: the scan is issued
ClearStart ==
    /\ clear.pc = "idle"
    /\ clear' = [clear EXCEPT !.pc = "scan"]
    /\ UNCHANGED <<store, clock, io, connectedClients, lastBroadcast, variant, req, fix,
                   firstWrite, sockets, asked, inbox, calls, testStatus, top, direct, pings,
                   scanned, can>>

\* lines 240-252: the scan result arrives (or the scan throws); the loop
\* runs up to its first DeleteCommand.
ClearScanReturns ==
    /\ clear.pc = "scan"
    /\ \/ \E items \in ScanResults :
            clear' = IF items = <<>> THEN IdleClear
                     ELSE [pc |-> "delete", items |-> items]
       \/ clear' = IdleClear
    /\ UNCHANGED <<store, clock, io, connectedClients, lastBroadcast, variant, req, fix,
                   firstWrite, sockets, asked, inbox, calls, testStatus, top, direct, pings,
                   scanned, can>>

\* lines 244-263: a DeleteCommand of the loop completes (the loop goes on
\* to the next item) or throws (the catch ends the run).
ClearDeleteReturns ==
    /\ clear.pc = "delete"
    /\ \/ /\ store' = Delete(store, Head(clear.items).userId)
          /\ clear' = IF Tail(clear.items) = <<>> THEN IdleClear
                      ELSE [clear EXCEPT !.items = Tail(@)]
       \/ /\ clear' = IdleClear
          /\ UNCHANGED store
    /\ UNCHANGED <<clock, io, connectedClients, lastBroadcast, variant, req, fix, firstWrite,
                   sockets, asked, inbox, calls, testStatus, top, direct, pings, scanned, can>>

\* ------------------------------------------------------------ getTopScores
\* lines 121-155: the scan of a call of getTopScores(limit) returns the
\* records of the table in some order, or throws.
TopScanReturns ==
    /\ top.pc = "scan"
    /\ \E ok \in BOOLEAN :
       \E items \in (IF ok THEN Orders(top.table) ELSE {<<>>}) :
        top' = [top EXCEPT !.pc = "done",
                           !.success = GetTopScores(ok, items, top.limit).success,
                           !.scores = GetTopScores(ok, items, top.limit).scores]
    /\ UNCHANGED <<store, clock, io, connectedClients, lastBroadcast, variant, req, fix,
                   firstWrite, sockets, asked, inbox, calls, testStatus, clear, direct, pings,
                   scanned, can>>

\* ------------------------------------------------------- WebSocketService
\* server.ts: WebSocketService.initialize runs before the server listens;
\* the Pusher deployment never runs it.
Initialize ==
    /\ ~io
    /\ \A r \in Requests : req[r].pc = "idle"
    /\ io' = TRUE
    /\ UNCHANGED <<store, clock, connectedClients, lastBroadcast, variant, req, fix, firstWrite,
                   sockets, asked, inbox, calls, testStatus, clear, top, direct, pings, scanned,
                   can>>

\* line 49: this.connectedClients.add(socket.id)
OnConnectMut(registry, id) == IF registry = {} THEN {id} ELSE registry
OnConnect(registry, id) == registry \cup {id}

\* line 86: this.connectedClients.delete(socket.id)
OnDisconnectMut(registry, id) == IF registry = {id} THEN registry ELSE registry \ {id}
OnDisconnect(registry, id) == registry \ {id}

\* lines 52-56: the welcome message (its timestamp is left out)
Welcome(c) ==
    [event |-> "welcome",
     data |-> [message |-> "Connected to leaderboard WebSocket", socketId |-> c]]

\* The rooms of a socket: Socket.IO puts each socket in the room of its own
\* id, and the service never calls socket.join or socket.leave.
Rooms(c) == {c}

MembersOf(room) == {c \in sockets : room \in Rooms(c)}

\* The payloads a client sends with 'ping': null, or an object holding the
\* client's Date.now()
NullPayload == [isNull |-> TRUE, timestamp |-> ""]
PingPayloads == {NullPayload, [isNull |-> FALSE, timestamp |-> "Date.now()"]}

\* line 97: the pong the ping handler emits.  The handler takes no
\* argument: the data is a new object with the server's time.
Pong(payload) ==
    [event |-> "pong", data |-> [isNull |-> FALSE, timestamp |-> "toISOString()"]]

\* io.on('connection'): lines 47-58.  A client connects: the server opens
\* the socket and runs the connection handler.
Connect(c) ==
    /\ io
    /\ c \notin sockets
    /\ sockets' = sockets \cup {c}
    /\ connectedClients' = OnConnect(connectedClients, c)
    /\ direct' = [direct EXCEPT ![c] = <<Welcome(c)>>]
    /\ UNCHANGED <<store, clock, io, lastBroadcast, variant, req, fix, firstWrite, asked, inbox,
                   calls, testStatus, clear, top, pings, scanned, can>>

\* socket.on('disconnect'): lines 84-88.  The server closes the socket and
\* fires its disconnect event, once.
Disconnect(c) ==
    /\ c \in sockets
    /\ sockets' = sockets \ {c}
    /\ connectedClients' = OnDisconnect(connectedClients, c)
    /\ asked' = asked \ {c}
    /\ direct' = [direct EXCEPT ![c] = <<>>]
    /\ pings' = [pings EXCEPT ![c] = <<>>]
    /\ UNCHANGED <<store, clock, io, lastBroadcast, variant, req, fix, firstWrite, inbox, calls,
                   testStatus, clear, top, scanned, can>>

\* A client emits 'join-leaderboard' (tests/integration/websocket.test.ts
\* line 280).  The connection handler registers listeners for
\* 'request_leaderboard', 'disconnect', 'error' and 'ping' only, so the
\* server drops the event: no socket.join, no reply.
JoinLeaderboard(c) ==
    /\ c \in sockets
    /\ c \notin asked
    /\ asked' = asked \cup {c}
    /\ UNCHANGED <<store, clock, io, connectedClients, lastBroadcast, variant, req, fix,
                   firstWrite, sockets, inbox, calls, testStatus, clear, top, direct, pings,
                   scanned, can>>

\* A client emits 'leave-leaderboard' (tests/integration/websocket.test.ts
\* line 91): no listener either, the server drops the event.
LeaveLeaderboard(c) ==
    /\ c \in sockets
    /\ c \in asked
    /\ asked' = asked \ {c}
    /\ UNCHANGED <<store, clock, io, connectedClients, lastBroadcast, variant, req, fix,
                   firstWrite, sockets, inbox, calls, testStatus, clear, top, direct, pings,
                   scanned, can>>

\* socket.on('ping'): lines 96-98.  A client emits 'ping' with a payload
\* and the handler emits 'pong' to that socket.
Ping(c) ==
    /\ c \in sockets
    /\ Len(pings[c]) < MaxPings
    /\ \E payload \in PingPayloads :
        /\ pings' = [pings EXCEPT ![c] = Append(@, payload)]
        /\ direct' = [direct EXCEPT ![c] = Append(@, Pong(payload))]
    /\ UNCHANGED <<store, clock, io, connectedClients, lastBroadcast, variant, req, fix,
                   firstWrite, sockets, asked, inbox, calls, testStatus, clear, top, scanned,
                   can>>

\* getStats: lines 182-187
GetStats == [connectedClients |-> Cardinality(connectedClients), isInitialized |-> io]

\* POST /ws/test-notification (leaderboard.ts lines 158-182):
\* sendNotification with a caller-chosen type.  A throw of sendNotification
\* reaches the catch of the route, which answers 500.
TestNotification ==
    /\ calls < MaxCalls
    /\ \E type \in NotificationTypes, ok \in Oks :
        /\ lastBroadcast' = IF Emit(type, ok) = <<>> THEN lastBroadcast
                            ELSE Deliver(type, <<>>)
        /\ inbox' = Receive(Len(Emit(type, ok)))
        /\ calls' = calls + Len(Emit(type, ok))
        /\ testStatus' = IF ok THEN 200 ELSE 500
    /\ UNCHANGED <<store, clock, io, connectedClients, variant, req, fix, firstWrite, sockets,
                   asked, clear, top, direct, pings, scanned, can>>

\* ------------------------------------------------------------------ system
\* Concurrent submissions.
Next ==
    \/ \E r \in Requests : Submit(r, ConcurrentScores)
    \/ \E r \in Requests : UserScoreReturns(r)
    \/ \E r \in Requests : PutReturns(r)
    \/ \E r \in Requests : ScanReturns(r)
    \/ \E r \in Requests : PusherScanReturns(r)
    \/ Initialize

Spec == Init /\ [][Next]_vars

\* Concurrent submissions and the admin utility.
NextAdmin ==
    \/ \E r \in Requests : Submit(r, ConcurrentScores)
    \/ \E r \in Requests : UserScoreReturns(r)
    \/ \E r \in Requests : PutReturns(r)
    \/ \E r \in Requests : ScanReturns(r)
    \/ \E r \in Requests : PusherScanReturns(r)
    \/ Initialize
    \/ FixStart
    \/ FixScanReturns
    \/ FixPutReturns

SpecAdmin == Init /\ [][NextAdmin]_vars

\* The broadcast service with its sockets, and one submission of any score.
NextWs ==
    \/ Initialize
    \/ \E c \in Clients : Connect(c)
    \/ \E c \in Clients : Disconnect(c)
    \/ \E c \in Clients : JoinLeaderboard(c)
    \/ TestNotification
    \/ Submit(1, ScoreInputs)
    \/ UserScoreReturns(1)
    \/ PutReturns(1)
    \/ ScanReturns(1)
    \/ PusherScanReturns(1)

SpecWs == Init /\ [][NextWs]_vars

\* The sockets and the events their clients send.
NextSock ==
    \/ Initialize
    \/ \E c \in Clients : Connect(c)
    \/ \E c \in Clients : Disconnect(c)
    \/ \E c \in Clients : JoinLeaderboard(c)
    \/ \E c \in Clients : LeaveLeaderboard(c)
    \/ \E c \in Clients : Ping(c)

SpecSock == Init /\ [][NextSock]_vars

\* Concurrent submissions of scores that are not high, with the scans of
\* getTopScores executed and answered in separate steps, and the sockets
\* that receive the broadcasts.
SnapshotScores == {0, 1000}

NextSnap ==
    \/ Initialize
    \/ \E c \in Clients : Connect(c)
    \/ \E r \in Requests : Submit(r, SnapshotScores)
    \/ \E r \in Requests : UserScoreReturns(r)
    \/ \E r \in Requests : PutReturns(r)
    \/ \E r \in Requests : ScanExecutes(r)
    \/ \E r \in Requests : ScanArrives(r)
    \/ \E r \in Requests : PusherScanReturns(r)

SpecSnap == Init /\ [][NextSnap]_vars

\* Submissions one after the other, and the admin utilities.
SubmitSeq(r) ==
    /\ \A r2 \in Requests : req[r2].pc \in {"idle", "done"}
    /\ Submit(r, ConcurrentScores)

NextSeq ==
    \/ \E r \in Requests : SubmitSeq(r)
    \/ \E r \in Requests : UserScoreReturns(r)
    \/ \E r \in Requests : PutReturns(r)
    \/ \E r \in Requests : ScanReturns(r)
    \/ \E r \in Requests : PusherScanReturns(r)
    \/ Initialize
    \/ FixStart
    \/ FixScanReturns
    \/ FixPutReturns
    \/ ClearStart
    \/ ClearScanReturns
    \/ ClearDeleteReturns

SpecSeq == Init /\ [][NextSeq]_vars

\* Submissions one after the other, and GET /can-submit.
NextCan ==
    \/ \E r \in Requests : SubmitSeq(r)
    \/ \E r \in Requests : UserScoreReturns(r)
    \/ \E r \in Requests : PutReturns(r)
    \/ \E r \in Requests : ScanReturns(r)
    \/ \E r \in Requests : PusherScanReturns(r)
    \/ Initialize
    \/ CanSubmitStart
    \/ CanSubmitReturns

SpecCan == Init /\ [][NextCan]_vars

\* getTopScores applied to every table and limit of the input sets.
InitTop ==
    /\ store = [u \in Users |-> <<>>]
    /\ clock = 1
    /\ io = FALSE
    /\ connectedClients = {}
    /\ lastBroadcast = NoBroadcast
    /\ variant = "ws"
    /\ req = [r \in Requests |-> IdleRequest]
    /\ fix = IdleFix
    /\ firstWrite = [u \in Users |-> <<>>]
    /\ sockets = {}
    /\ asked = {}
    /\ inbox = [c \in Clients |-> <<>>]
    /\ calls = 0
    /\ testStatus = 0
    /\ clear = IdleClear
    /\ direct = [c \in Clients |-> <<>>]
    /\ pings = [c \in Clients |-> <<>>]
    /\ scanned = [r \in Requests |-> <<>>]
    /\ can = IdleCan
    /\ \E table \in TopTables, limit \in TopLimits :
         top = [IdleTop EXCEPT !.pc = "scan", !.table = table, !.limit = limit]

NextTop == TopScanReturns

SpecTop == InitTop /\ [][NextTop]_vars

\* ================================================================= claims
Count(q, type) == Cardinality({i \in 1..Len(q.emitted) : q.emitted[i] = type})

Notified(q) == q.emitted # <<>> \/ q.p1000 > 0 \/ q.pSub > 0

\* C1: of the submissions for one userId none of whose calls failed, at
\* most one is accepted.
C1_AtMostOneAccepted ==
    \A r1, r2 \in Requests :
        (/\ r1 # r2
         /\ req[r1].userId = req[r2].userId
         /\ req[r1].outcome = "Accepted" /\ ~req[r1].sfail /\ req[r1].failed = {}
         /\ req[r2].outcome = "Accepted" /\ ~req[r2].sfail /\ req[r2].failed = {})
        => FALSE

\* C2: as long as no store command has failed, the record stored for a
\* userId is the first record written for it.
C2_RecordImmutable ==
    (\A r \in Requests : ~req[r].sfail) =>
        \A u \in Users : store[u] # <<>> => store[u] = firstWrite[u]

\* C3: a submission whose query returned a record is answered 409
\* AlreadySubmitted in the same turn, having written nothing and notified
\* nobody (no socket emit, no Pusher trigger), in both route variants.
C3_DuplicateRejected ==
    \A r \in Requests :
        req[r].found =>
            /\ req[r].pc = "done"
            /\ req[r].outcome = "AlreadySubmitted"
            /\ req[r].responses = <<409>>
            /\ req[r].writes = 0
            /\ ~Notified(req[r])

C3_Witness ==
    \E r \in Requests :
        /\ req[r].found /\ req[r].pc = "done" /\ variant = "pusher"
        /\ store[req[r].userId] # <<>>
        /\ store[req[r].userId][1].score # req[r].score

\* C4: an accepted submission none of whose calls failed, with io
\* initialized, has emitted one HIGH_SCORE notification if its score is above
\* 1000 and none otherwise.
C4_OneHighScore ==
    \A r \in Requests :
        (/\ req[r].pc = "done" /\ req[r].outcome = "Accepted"
         /\ io /\ req[r].failed = {} /\ ~req[r].sfail)
        => Count(req[r], "HIGH_SCORE") = (IF req[r].score > 1000 THEN 1 ELSE 0)

C6_StoreFailure ==
    \A r \in Requests :
        (req[r].sfail /\ req[r].pc = "done") =>
            /\ req[r].outcome = "StoreFailure"
            /\ req[r].writes = 0
            /\ ~Notified(req[r])

\* C7: a submission that has notified anybody (socket emit or Pusher
\* trigger) has committed its write, and the store holds a record for its
\* user.
C7_NotifyAfterCommit ==
    \A r \in Requests :
        Notified(req[r]) => req[r].writes = 1 /\ store[req[r].userId] # <<>>

C7_Witness ==
    \E r \in Requests :
        /\ req[r].emitted = <<"HIGH_SCORE", "NEW_PLAYER">>
        /\ req[r].writes = 1
        /\ \E r2 \in Requests : req[r2].outcome = "StoreFailure" /\ ~Notified(req[r2])

\* C8: a submission whose write committed is reported as accepted whatever
\* failed afterwards: submitScore returns success and the first (and, to the
\* client, only) response of the route is 200.
C8_BroadcastFailureAbsorbed ==
    \A r \in Requests :
        (req[r].writes >= 1 /\ req[r].pc \in {"pScan", "done"}) =>
            /\ req[r].outcome = "Accepted"
            /\ req[r].responses # <<>>
            /\ req[r].responses[1] = 200

C8_Witness ==
    \E r \in Requests :
        /\ variant = "ws"
        /\ req[r].pc = "done"
        /\ req[r].failed = {"LEADERBOARD_UPDATE", "ROUTE"}
        /\ req[r].responses = <<200>>

\* C9: an accepted submission whose store reads and writes succeeded and
\* whose NEW_PLAYER and LEADERBOARD_UPDATE emits did not themselves fail,
\* with io initialized, has emitted one NEW_PLAYER
\* and one LEADERBOARD_UPDATE notification.
C9_NewPlayerAndSnapshot ==
    \A r \in Requests :
        (/\ req[r].pc = "done" /\ req[r].outcome = "Accepted" /\ io /\ ~req[r].sfail
         /\ "NEW_PLAYER" \notin req[r].failed
         /\ "LEADERBOARD_UPDATE" \notin req[r].failed)
        => /\ Count(req[r], "NEW_PLAYER") = 1
           /\ Count(req[r], "LEADERBOARD_UPDATE") = 1

\* C10 as stated: every socket connected when a broadcast call started got
\* exactly one message from it.
C10_ExactlyOneMessage ==
    \A c \in lastBroadcast.targets : Len(lastBroadcast.delivered[c]) = 1

\* C10 as amended: every socket connected when a broadcast call started got
\* the payload once on the generic event ('notification', or
\* 'leaderboard_update' for a leaderboard broadcast) and, for a HIGH_SCORE or
\* NEW_PLAYER payload, once more on the event of its type ('high_score',
\* 'new_player'), and nothing else; a socket not connected then got nothing.
C10_OncePerEvent ==
    \A c \in Clients :
        LET msgs == lastBroadcast.delivered[c] IN
        IF c \in lastBroadcast.targets
        THEN /\ Len(msgs) \in {1, 2}
             /\ msgs[1].event =
                  (IF msgs[1].type = "LEADERBOARD_UPDATE" THEN "leaderboard_update"
                                                          ELSE "notification")
             /\ Len(msgs) = 2 <=> msgs[1].type \in {"HIGH_SCORE", "NEW_PLAYER"}
             /\ Len(msgs) = 2 =>
                  /\ msgs[2].type = msgs[1].type
                  /\ msgs[2].event = (IF msgs[1].type = "HIGH_SCORE" THEN "high_score"
                                                                     ELSE "new_player")
        ELSE msgs = <<>>

C10_Witness ==
    /\ lastBroadcast.targets = {"c1"}
    /\ sockets = Clients
    /\ Len(lastBroadcast.delivered["c1"]) = 2
    /\ lastBroadcast.delivered["c2"] = <<>>

\* C11: a leaderboard update is delivered only to the sockets that joined
\* room "leaderboard": a socket whose client never asked to join does not
\* receive it.
C11_RoomOnly ==
    (asked # {} /\ \A r \in Requests : ~req[r].sfail) =>
        \A c \in Clients :
            (/\ lastBroadcast.delivered[c] # <<>>
             /\ lastBroadcast.delivered[c][1].type = "LEADERBOARD_UPDATE")
            => c \in asked

\* C12: a socket that is closed (never connected, or its disconnect has
\* been processed) is not in connectedClients and receives nothing from any
\* step; running the disconnect handler for an id that is not registered
\* leaves connectedClients as it is, and running it twice is the same as
\* running it once.
C12_Disconnected ==
    [][/\ \A c \in Clients \ sockets :
            /\ c \notin connectedClients
            /\ inbox'[c] = inbox[c]
            /\ OnDisconnect(connectedClients, c) = connectedClients
       /\ \A c \in Clients :
            OnDisconnect(OnDisconnect(connectedClients, c), c) = OnDisconnect(connectedClients, c)
      ]_vars

C12_Witness ==
    /\ sockets = {"c2"}
    /\ connectedClients = {"c2"}
    /\ inbox["c1"] = <<1>>
    /\ inbox["c2"] = <<1, 2>>

C14_NeverRaised ==
    /\ testStatus # 500
    /\ \A r \in Requests :
         req[r].failed \cap {"HIGH_SCORE", "NEW_PLAYER", "LEADERBOARD_UPDATE", "ROUTE"} = {}

\* C15: getStats().connectedClients is the number of open sockets (those
\* that connected and have not disconnected) before and after every step;
\* a step that opens a socket raises it by 1, a step that closes one lowers
\* it by 1, and it is never negative.
C15_ConnectionCount ==
    [][/\ GetStats.connectedClients = Cardinality(sockets)
       /\ GetStats'.connectedClients = Cardinality(sockets')
       /\ GetStats'.connectedClients >= 0
       /\ \A c \in Clients :
            /\ (c \notin sockets /\ c \in sockets') =>
                  GetStats'.connectedClients = GetStats.connectedClients + 1
            /\ (c \in sockets /\ c \notin sockets') =>
                  GetStats'.connectedClients = GetStats.connectedClients - 1
      ]_vars

C15_Witness ==
    /\ GetStats.connectedClients = 1
    /\ sockets = {"c2"}
    /\ inbox["c1"] # <<>>
    /\ GetStats.isInitialized

\* The order the claim requires: higher score first, and of two records
\* with the same score the one submitted earlier first
Before(a, b) == a.score > b.score \/ (a.score = b.score /\ a.timestamp < b.timestamp)

Min(a, b) == IF a < b THEN a ELSE b

\* C16: a successful getTopScores(n) returns min(n, size of the table)
\* different records of the table, each before the next in the required
\* order (score descending, ties by earliest timestamp), and no record left
\* out comes before a returned one.
C16_TopScores ==
    (top.pc = "done" /\ top.success) =>
        LET out == top.scores
            returned == {out[i] : i \in 1..Len(out)}
        IN /\ Len(out) = Min(top.limit, Cardinality(top.table))
           /\ Cardinality(returned) = Len(out)
           /\ returned \subseteq top.table
           /\ \A i, j \in 1..Len(out) : i < j => Before(out[i], out[j])
           /\ \A rec \in top.table \ returned : \A i \in 1..Len(out) : Before(out[i], rec)

\* C17: of two submissions for one userId made one after the other, with no
\* store command and no emit of theirs failing, the later one is not
\* accepted once the earlier one has been.
C17_OneSubmissionForever ==
    \A r1, r2 \in Requests :
        (/\ r1 < r2
         /\ req[r1].userId = req[r2].userId
         /\ req[r1].outcome = "Accepted" /\ ~req[r1].sfail /\ req[r1].failed = {}
         /\ ~req[r2].sfail /\ req[r2].failed = {})
        => req[r2].outcome # "Accepted"

\* C18: the result of submitScore for a submission rejected as a duplicate,
\* and the body of its 409 response, contain the score of the record that
\* the query found.
C18_RejectionCarriesScore ==
    \A r \in Requests :
        (req[r].found /\ req[r].outcome = "AlreadySubmitted"
                      /\ store[req[r].userId] # <<>>) =>
            /\ "score" \in DOMAIN SubmitResult(req[r].outcome)
            /\ "score" \in DOMAIN SubmitBody(req[r])
            /\ SubmitBody(req[r]).score = store[req[r].userId][1].score

C20_TypedResult ==
    \A r \in Requests :
        LET q == req[r]
            result == SubmitResult(q.outcome)
        IN (q.reads >= 1 /\ q.pc \in {"pScan", "done"}) =>
            /\ q.outcome \in {"Accepted", "AlreadySubmitted", "StoreFailure"}
            /\ q.outcome = "Accepted" =>
                  result.success /\ ~result.alreadySubmitted /\ q.writes = 1
            /\ q.outcome = "AlreadySubmitted" =>
                  ~result.success /\ result.alreadySubmitted /\ q.writes = 0
            /\ q.outcome = "StoreFailure" =>
                  /\ ~result.success /\ "error" \in DOMAIN result
                  /\ "alreadySubmitted" \notin DOMAIN result
                  /\ q.writes = 0

C20_Witness ==
    \E r1, r2 \in Requests :
        /\ req[r1].pc = "done" /\ req[r1].outcome = "Accepted"
        /\ req[r1].sfail /\ "LEADERBOARD_UPDATE" \in req[r1].failed
        /\ req[r2].pc = "done" /\ req[r2].outcome = "StoreFailure"

\* The place of a notification type in the order the claim requires
Rank(type) ==
    CASE type = "HIGH_SCORE" -> 1
      [] type = "NEW_PLAYER" -> 2
      [] OTHER -> 3

\* C21: the notifications of a submission none of whose calls failed are
\* emitted in the order HIGH_SCORE, NEW_PLAYER, LEADERBOARD_UPDATE: each one
\* emitted later has a higher place, so nothing follows LEADERBOARD_UPDATE.
C21_EmissionOrder ==
    \A r \in Requests :
        (req[r].failed = {} /\ ~req[r].sfail) =>
            \A i, j \in 1..Len(req[r].emitted) :
                i < j => Rank(req[r].emitted[i]) < Rank(req[r].emitted[j])

\* The events of one name the server emitted to socket c alone
DirectOf(c, event) == SelectSeq(direct[c], LAMBDA m : m.event = event)

\* C22: a socket whose client asked to join room "leaderboard" (and has
\* not asked to leave) is a member of the room and has been sent
\* 'joined-leaderboard'.
C22_RoomRoundTrip ==
    \A c \in asked :
        /\ c \in MembersOf("leaderboard")
        /\ DirectOf(c, "joined-leaderboard") # <<>>

\* C24: the pongs sent to a socket are, one for one and in
\* order, the payloads of the pings its client sent, and carry them
\* unchanged.
C24_PongEchoesPing ==
    \A c \in Clients :
        /\ Len(DirectOf(c, "pong")) = Len(pings[c])
        /\ \A i \in 1..Len(pings[c]) : DirectOf(c, "pong")[i].data = pings[c][i]

\* C23: in the Pusher variant an accepted submission has triggered
\* '1000 posted' once if its score is above 1000 and not at all otherwise.
C23_PusherHighScore ==
    \A r \in Requests :
        (/\ variant = "pusher" /\ req[r].outcome = "Accepted" /\ ~req[r].sfail
         /\ req[r].pc \in {"pScan", "done"})
        => req[r].p1000 = (IF req[r].score > 1000 THEN 1 ELSE 0)

\* C25: as long as no store command and no emit has failed, the store holds
\* for the user of every accepted submission a record with the score of
\* that submission (what a later getUserScore returns).
C25_AcceptedIsDurable ==
    (\A r \in Requests : ~req[r].sfail /\ req[r].failed = {}) =>
        \A r \in Requests :
            req[r].outcome = "Accepted" =>
                /\ HasExisting(GetUserScore(req[r].userId, TRUE))
                /\ GetUserScore(req[r].userId, TRUE).score[1].score = req[r].score

\* The entries of a leaderboard payload
Entries(data) == {data[i] : i \in 1..Len(data)}

\* The payload entries of the records the store holds
StoreEntries ==
    {[username |-> store[u][1].username, score |-> store[u][1].score,
      timestamp |-> store[u][1].timestamp] : u \in {v \in Users : store[v] # <<>>}}

\* C26: once all submissions have completed, for different users and with
\* nothing failing, the leaderboard update that is the latest delivery to a
\* connected socket holds the records of the final store.
C26_FinalSnapshot ==
    (/\ \A r \in Requests : /\ req[r].pc = "done" /\ req[r].outcome = "Accepted"
                             /\ ~req[r].sfail /\ req[r].failed = {}
     /\ \A r1, r2 \in Requests : r1 # r2 => req[r1].userId # req[r2].userId)
    => \A c \in sockets :
        (/\ lastBroadcast.delivered[c] # <<>>
         /\ lastBroadcast.delivered[c][1].type = "LEADERBOARD_UPDATE")
        => Entries(lastBroadcast.delivered[c][1].data) = StoreEntries

\* C27: a request of the Pusher variant attempts at most one response, and
\* exactly one once it has completed.
C27_OneResponse ==
    variant = "pusher" =>
        \A r \in Requests :
            /\ Len(req[r].responses) <= 1
            /\ req[r].pc = "done" => Len(req[r].responses) = 1

\* C28: a success response whose notificationSent flag is true belongs to a
\* submission for which a HIGH_SCORE notification was emitted.
C28_NotificationSentTruthful ==
    \A r \in Requests :
        (/\ req[r].pc = "done" /\ req[r].outcome = "Accepted"
         /\ SubmitBody(req[r]).notificationSent)
        => Count(req[r], "HIGH_SCORE") >= 1

\* C29: in every step, a submission that becomes AlreadySubmitted is for
\* a user who had a record before the step, and a user's record changes
\* only by the write of a submission for that user.
C29_UsersIndependent ==
    [][/\ \A r \in Requests :
            (req[r].outcome # "AlreadySubmitted" /\ req'[r].outcome = "AlreadySubmitted")
            => store[req[r].userId] # <<>>
       /\ \A u \in Users :
            store'[u] # store[u] =>
                \E r \in Requests : /\ req[r].userId = u
                                     /\ req'[r].writes = req[r].writes + 1
                                     /\ store'[u][1].score = req[r].score
      ]_vars

C29_Witness ==
    /\ req[1].userId = "u1" /\ req[1].outcome = "Accepted" /\ req[1].pc = "done"
    /\ req[2].userId = "u2" /\ req[2].outcome = "Accepted"
    /\ store["u1"] # <<>> /\ store["u1"][1].score = req[1].score
    /\ store["u2"] # <<>> /\ store["u2"][1].score = req[2].score
    /\ req[1].score # req[2].score

\* C30: the response of GET /can-submit has canSubmit = ~hasSubmitted,
\* and when the table held a record for the user it has canSubmit = false
\* and currentScore equal to the stored score.
C30_CanSubmitAgrees ==
    can.pc = "done" =>
        LET response == can.response[1] IN
        /\ response.canSubmit = ~response.hasSubmitted
        /\ can.record # <<>> =>
              /\ ~response.canSubmit
              /\ response.currentScore = <<can.record[1].score>>

====
